---- MODULE Spec2Model ----
(***************************************************************************)
(* The playlist updater of NewDayNewIndie: one scheduled run queries a     *)
(* channel's recent uploads, filters them by title and synchronises the    *)
(* result into a YouTube playlist.  update_playlist.js holds three drafts  *)
(* of the job and src/unnamed/part_001 a fourth; `variant' says which one  *)
(* runs:                                                                   *)
(*   "rebuild"  update_playlist.js 1-286   (delete everything, re-insert)  *)
(*   "diff"     update_playlist.js 287-743 (insert the missing, evict)     *)
(*   "simple"   unnamed/part_001           (diff without retry)            *)
(*   "clear"    update_playlist.js 744-975 (clearPlaylist, then add)       *)
(* The clear draft is explored on playlists of at most two entries.        *)
(* A video is a natural number; video n was published at time n, so a      *)
(* larger number is a more recent video.                                   *)
(***************************************************************************)
EXTENDS Integers, Sequences, FiniteSets, TLC

\* ---------------------------------------------------------------- constants
BATCH_SIZE == 50
MAX_RESULTS == 20
MAX_ATTEMPTS == 3
INITIAL_DELAY == 1000
MAX_DELAY == 10000
maxTotalAttempts == 5
\* The clear draft: FILTER_CONFIG.minDuration, and the literal maxResults of
\* its search and of clearPlaylist's playlistItems.list.
minDuration == 60
ClearSearchMax == 10
ClearListMax == 50
\* VideoCollector.minApiCallInterval of the diff draft, in ms.
minApiCallInterval == 1000

\* ------------------------------------------------------------------- bounds
\* Remote calls that fail in one behaviour, and runs the scheduler starts.
MaxFaults == 3
MaxRuns == 2
\* Entries that somebody else deletes while a run is under way, and the
\* largest maxAttempts Utils.retry is given.
MaxExternal == 1
MaxRetryAttempts == 6
\* The failures of a behaviour, counted from its first, that may be
\* ambiguous: reported although the write was applied.
MaxAmbiguous == 1
\* The time a remote call takes to answer, in ms.
CallLatency == 100
\* The longest of the duration strings built from DurationAlphabet.
MaxDurationLen == 5

\* ------------------------------------------------------------------- titles
\* A title is a sequence of one-character strings.
UpperCase == <<"A","B","C","D","E","F","G","H","I","J","K","L","M",
               "N","O","P","Q","R","S","T","U","V","W","X","Y","Z">>
LowerCase == <<"a","b","c","d","e","f","g","h","i","j","k","l","m",
               "n","o","p","q","r","s","t","u","v","w","x","y","z">>

\* The canonical form of a character under the regular expression flag i.
Fold(c) ==
    IF \E k \in 1..26 : UpperCase[k] = c
    THEN LowerCase[CHOOSE k \in 1..26 : UpperCase[k] = c]
    ELSE c

\* The test of a pattern whose brackets are not escaped, /[MV]/i: a
\* character class, which one character of the title satisfies.
RegexTestCharClass(pat, title) ==
    \E s \in 1..Len(title) :
        \E k \in 2..(Len(pat) - 1) : Fold(title[s]) = Fold(pat[k])

\* pattern.test(title) for a literal pattern with the flag i: the pattern
\* occurs somewhere in the title, letters compared without case.
RegexTest(pat, title) ==
    \E s \in 0..(Len(title) - Len(pat)) :
        \A k \in 1..Len(pat) : Fold(title[s + k]) = Fold(pat[k])

INCLUDE_PATTERNS ==
    << <<"[","M","V","]">>,
       <<"[","O","f","f","i","c","i","a","l"," ","A","u","d","i","o","]">> >>

\* INCLUDE_PATTERNS.some(pattern => pattern.test(title))
MatchesPattern(title) ==
    \E p \in 1..Len(INCLUDE_PATTERNS) : RegexTest(INCLUDE_PATTERNS[p], title)

\* The titles the channel uses: the first four match a pattern, the last
\* four do not.
Titles ==
    << <<"[","M","V","]"," ","a">>,
       <<"b"," ","[","m","v","]">>,
       <<"c"," ","[","O","f","f","i","c","i","a","l"," ","A","u","d","i","o","]">>,
       <<"[","O","F","F","I","C","I","A","L"," ","a","u","d","i","o","]">>,
       <<"M","V"," ","d">>,
       <<"[","M"," ","V","]">>,
       <<"[","O","f","f","i","c","i","a","l"," ","V","i","d","e","o","]">>,
       <<"L","i","v","e">> >>

TitleModes == {"all", "none", "mixed"}

\* The title of video n on a channel of the given kind.
TitleOf(mode, n) ==
    CASE mode = "all"   -> Titles[((n - 1) % 4) + 1]
      [] mode = "none"  -> Titles[5 + ((n - 1) % 4)]
      [] OTHER          -> Titles[((n * 3) % 8) + 1]

PublishedAt(v) == v

\* ---------------------------------------------------------------- durations
\* contentDetails.duration, a sequence of one-character strings.
Durations ==
    << <<"P","T","3","M","2","0","S">>,
       <<"P","T","4","5","S">>,
       <<"P","T","1","H","2","M">>,
       <<"P","1","D","T","1","M">>,
       <<"P","T","1","M">> >>

DurationOf(n) == Durations[((n - 1) % 5) + 1]

DigitChars == <<"0","1","2","3","4","5","6","7","8","9">>
IsDigit(c) == \E d \in 1..10 : DigitChars[d] = c
DigitValue(c) == (CHOOSE d \in 1..10 : DigitChars[d] = c) - 1

\* The index after the longest run of digits of s that starts at p.
RECURSIVE DigitsEnd(_, _)
DigitsEnd(s, p) ==
    IF p <= Len(s) /\ IsDigit(s[p]) THEN DigitsEnd(s, p + 1) ELSE p

\* parseInt of the digits s[p..q-1].
RECURSIVE ParseInt(_, _, _)
ParseInt(s, p, q) ==
    IF q <= p THEN 0 ELSE ParseInt(s, p, q - 1) * 10 + DigitValue(s[q - 1])

\* The optional group (?:(\d+)U)? tried at p: its number (0 when the group
\* does not take part) and where the match goes on.
DurationGroup(s, p, unit) ==
    LET q == DigitsEnd(s, p)
    IN  IF q > p /\ q <= Len(s) /\ s[q] = unit
        THEN [value |-> ParseInt(s, p, q), next |-> q + 1]
        ELSE [value |-> 0, next |-> p]

\* parseDuration: duration.match(/PT(?:(\d+)H)?(?:(\d+)M)?(?:(\d+)S)?/), which
\* matches at the first "PT" of the string, wherever it is.
parseDuration(duration) ==
    LET starts == {i \in 1..(Len(duration) - 1) :
                      duration[i] = "P" /\ duration[i + 1] = "T"}
    IN  IF starts = {} THEN 0
        ELSE LET i == CHOOSE a \in starts : \A b \in starts : a <= b
                 h == DurationGroup(duration, i + 2, "H")
                 m == DurationGroup(duration, h.next, "M")
                 sec == DurationGroup(duration, m.next, "S")
             IN  h.value * 3600 + m.value * 60 + sec.value

\* ------------------------------------------------------------------ helpers
Min(a, b) == IF a < b THEN a ELSE b
Max(a, b) == IF a > b THEN a ELSE b

Pow2(n) == IF n <= 0 THEN 1 ELSE 2 ^ n

\* Array.prototype.slice(from, to) with 0-based indices, to exclusive.
Slice(s, from, to) ==
    LET lo == Min(from, Len(s))
        hi == Min(Max(to, lo), Len(s))
    IN  [k \in 1..(hi - lo) |-> s[lo + k]]

\* Array.prototype.filter, keeping the elements whose index is in keep.
RECURSIVE KeepIndices(_, _, _)
KeepIndices(s, keep, k) ==
    IF k > Len(s) THEN <<>>
    ELSE IF k \in keep THEN <<s[k]>> \o KeepIndices(s, keep, k + 1)
         ELSE KeepIndices(s, keep, k + 1)

Range(s) == {s[k] : k \in 1..Len(s)}

VideoIds(items) == {items[k].videoId : k \in 1..Len(items)}

\* Array.prototype.sort with the comparator b.publishedAt - a.publishedAt:
\* a stable sort, most recent first.
RECURSIVE InsertDesc(_, _)
InsertDesc(sorted, v) ==
    IF sorted = <<>> THEN <<v>>
    ELSE IF Head(sorted).publishedAt >= v.publishedAt
         THEN <<Head(sorted)>> \o InsertDesc(Tail(sorted), v)
         ELSE <<v>> \o sorted

RECURSIVE SortByPublishedDesc(_)
SortByPublishedDesc(s) ==
    IF s = <<>> THEN <<>>
    ELSE InsertDesc(SortByPublishedDesc(SubSeq(s, 1, Len(s) - 1)), s[Len(s)])

\* -------------------------------------------------------------------- state
VARIABLES
    variant,        \* which draft of the job runs
    clientRefresh,  \* the client object has a refreshTokenIfNeeded method
    envPlaylistId,  \* process.env.YOUTUBE_PLAYLIST_ID (NoId: not set)
    uploads,        \* the channel: videos 1..uploads, the query's result set
    titleMode,      \* the channel: how its videos are titled
    searchOrder,    \* the service: the order of the results of a search
    remote,         \* the service: playlist id -> its entries, in position order
    nextEntryId,    \* the service: the id of the next entry it creates
    nextPlaylistId, \* the service: the id of the next playlist it creates
    pc,             \* the position of updatePlaylist()
    run,            \* the number of the current run (process)
    exitCode,       \* the process's exit status, Running until it exits
    playlistId,     \* updatePlaylist: the playlist the run works on
    videos,         \* getLatestVideos: the candidates
    nextPageToken,  \* getLatestVideos: the page to ask for next (0: null)
    totalAttempts,  \* getLatestVideos: pages asked for
    pageLog,        \* history: the pages getLatestVideos asked for in this run
    existingItems,  \* updatePlaylistItems: the entries read
    videosToAdd,    \* updatePlaylistItems: the candidates to insert
    itemsToRemove,  \* updatePlaylistItems: the entries to delete
    idx,            \* the index of the running for-of loop
    attempt,        \* Utils.retry: failed attempts of the running call
    playlistCache,  \* PlaylistManager.playlistCache: playlist id -> items
    faults,         \* remote calls made to fail so far
    mutations,      \* history: the remote mutations of this run, in order
    preItems,       \* history: the playlist when updatePlaylistItems began
    reconciled,     \* history: updatePlaylistItems was invoked in this run
    selectorError,  \* history: a search error escaped its retries in this run
    fetched,        \* history: getLatestVideos has returned in this run
    calledWith,     \* history: playlist ids passed to playlistItems calls
    prev,           \* history: how the previous run ended
    externals,      \* entries deleted by somebody else so far
    rSite,          \* Utils.retry: the call site (it decides shouldRetry)
    rMax,           \* Utils.retry: maxAttempts
    rAttempt,       \* Utils.retry: attempt
    rPc,            \* Utils.retry: "call", "wait", "returned", "threw" ("idle")
    rLog,           \* history: the outcome of every invocation of fn
    rDelays,        \* history: the delays waited, in ms
    rThrown,        \* the error Utils.retry threw (0: none)
    sinceCall,      \* ms since the run's most recent remote call started
    sinceStamp,     \* ms since VideoCollector.lastApiCall (Date.now() - it)
    lastGap,        \* history: ms between the starts of the last two calls
    fTitle,         \* the filter alone: video.snippet.title
    fDuration,      \* the filter alone: video.contentDetails.duration
    fSeconds,       \* the filter alone: what parseDuration returned
    fIncluded,      \* the filter alone: what shouldIncludeVideo returned
    fPc             \* the filter alone: "call", "parsed", "done" ("idle")

envVars == <<variant, clientRefresh, envPlaylistId, uploads, titleMode,
            searchOrder>>
remoteVars == <<remote, nextEntryId, nextPlaylistId>>
selVars == <<videos, nextPageToken, totalAttempts, pageLog>>
recVars == <<existingItems, videosToAdd, itemsToRemove, playlistCache>>
histVars == <<mutations, preItems, reconciled, selectorError, fetched, calledWith,
             prev>>
retryVars == <<rSite, rMax, rAttempt, rPc, rLog, rDelays, rThrown>>
\* Elapsed times are kept up to minApiCallInterval, which is all that the
\* program and the claims compare them with.
timeVars == <<sinceCall, sinceStamp, lastGap>>
filterVars == <<fTitle, fDuration, fSeconds, fIncluded, fPc>>
vars == <<envVars, remoteVars, pc, run, exitCode, playlistId, selVars, recVars,
          idx, attempt, faults, histVars, externals, retryVars, timeVars,
          filterVars>>

Variants == {"rebuild", "diff", "simple", "clear"}
NoId == 0
ConfiguredId == 1
Running == -1
NoPrev == [exit |-> Running, videos |-> <<>>, reconciled |-> FALSE]
\* No remote call yet in this run, and so no gap between two calls.
NoCall == -1

\* HTTP status codes of a failed remote call.
ErrorCodes == {401, 403, 404, 500}

\* A playlist the job's earlier runs left behind: size entries, the most
\* recent video being top, in the order given (the job inserts its sorted
\* candidates most recent first; a hand-made playlist may be oldest first).
InitialPlaylist(size, top, newestFirst) ==
    [k \in 1..size |->
        [id |-> k,
         videoId |-> IF newestFirst THEN top - k + 1 ELSE top - size + k]]

\* The runs explored: the channel (uploads, titles) and the configured
\* playlist (size, most recent video), from the empty channel to the spec's
\* scenario of 25 entries and 5 new candidates.
ScOrdered(u, m, size, top, order) ==
    [uploads |-> u, titleMode |-> m, size |-> size, top |-> top, order |-> order]

\* The service honours order: 'date': most recent first.
Sc(u, m, size, top) == ScOrdered(u, m, size, top, "date")

Scenarios ==
    { Sc(0, "all", 2, 2),     Sc(3, "all", 0, 0),     Sc(3, "mixed", 2, 2),
      Sc(3, "all", 21, 21),   Sc(30, "all", 20, 29),  Sc(30, "all", 25, 25),
      Sc(30, "mixed", 20, 29), Sc(60, "none", 2, 2),  Sc(300, "none", 2, 2),
      Sc(60, "all", 20, 59),  ScOrdered(21, "all", 20, 21, "oldestFirst") }

\* Whether the client object has the method refreshTokenIfNeeded that
\* ensureValidToken calls: the YouTubeClient of update_playlist.js has not
\* (FALSE); TRUE is a client that has it, and whose refresh succeeds.
RefreshProvided == IF variant = "diff" THEN BOOLEAN ELSE {FALSE}

\* A process starts: it has made no remote call, and lastApiCall = 0 is
\* long ago.
ClockInit ==
    /\ sinceCall = NoCall
    /\ sinceStamp = minApiCallInterval
    /\ lastGap = NoCall

\* No call of the filter functions under observation.
FilterIdle ==
    /\ fTitle = <<>>
    /\ fDuration = <<>>
    /\ fSeconds = 0
    /\ fIncluded = FALSE
    /\ fPc = "idle"

\* No Utils.retry under observation.
RetryIdle ==
    /\ rSite = "none"
    /\ rMax = 0
    /\ rAttempt = 0
    /\ rPc = "idle"
    /\ rLog = <<>>
    /\ rDelays = <<>>
    /\ rThrown = 0

Init ==
    /\ variant \in Variants
    /\ clientRefresh \in RefreshProvided
    /\ envPlaylistId \in {NoId, ConfiguredId}
    /\ \E sc \in Scenarios :
         /\ variant = "clear" => sc.size <= 2
         /\ uploads = sc.uploads
         /\ titleMode = sc.titleMode
         /\ searchOrder = sc.order
         /\ \/ /\ sc.size <= 2
               /\ remote = <<>>       \* the playlist does not exist (any more)
            \/ /\ envPlaylistId = ConfiguredId
               /\ \E newestFirst \in (IF sc.size = 0 THEN {TRUE} ELSE BOOLEAN) :
                    remote = [p \in {ConfiguredId} |->
                                InitialPlaylist(sc.size, sc.top, newestFirst)]
    /\ nextEntryId = 100
    /\ nextPlaylistId = 2
    /\ pc = "start"
    /\ run = 1
    /\ exitCode = Running
    /\ playlistId = NoId
    /\ videos = <<>>
    /\ nextPageToken = 0
    /\ pageLog = <<>>
    /\ totalAttempts = 0
    /\ existingItems = <<>>
    /\ videosToAdd = <<>>
    /\ itemsToRemove = <<>>
    /\ idx = 1
    /\ attempt = 0
    /\ playlistCache = <<>>
    /\ faults = 0
    /\ mutations = <<>>
    /\ preItems = <<>>
    /\ reconciled = FALSE
    /\ selectorError = FALSE
    /\ fetched = FALSE
    /\ calledWith = {}
    /\ prev = NoPrev
    /\ externals = 0
    /\ RetryIdle
    /\ ClockInit
    /\ FilterIdle

\* ------------------------------------------------------- the remote service
\* One raw result of youtube.search.list for video n.
SearchItem(n) ==
    [videoId |-> n, title |-> TitleOf(titleMode, n), publishedAt |-> PublishedAt(n)]

\* The video at the given rank of the query's result set: the service
\* ranks the channel's videos by date, most recent first, or, where the
\* order it goes by is not that of publishedAt, oldest first.
ResultAt(rank) == IF searchOrder = "date" THEN uploads - rank + 1 ELSE rank

\* youtube.search.list({order: 'date', maxResults, pageToken}): the page of
\* the result set; pageToken 0 is the first page and nextPageToken 0 means
\* there is none.
SearchList(maxResults, pageToken) ==
    LET first == uploads - pageToken * maxResults
        count == Min(maxResults, Max(first, 0))
    IN  [items |-> [k \in 1..count |->
                      SearchItem(ResultAt(pageToken * maxResults + k))],
         nextPageToken |-> IF first - count > 0 THEN pageToken + 1 ELSE 0]

\* youtube.videos.list({part: 'contentDetails,snippet', id}): the details of
\* video n.
VideoDetails(n) ==
    [videoId |-> n, title |-> TitleOf(titleMode, n), duration |-> DurationOf(n)]

\* youtube.playlistItems.list({playlistId, maxResults}): the first page.
PlaylistItemsList(pid, maxResults) == Slice(remote[pid], 0, maxResults)

\* youtube.playlistItems.insert: the new entry goes to the end.
PlaylistItemsInsert(pid, videoId) ==
    [remote EXCEPT ![pid] = Append(@, [id |-> nextEntryId, videoId |-> videoId])]

\* youtube.playlistItems.delete({id}).
PlaylistItemsDelete(entryId) ==
    [p \in DOMAIN remote |->
        KeepIndices(remote[p],
                    {k \in 1..Len(remote[p]) : remote[p][k].id # entryId}, 1)]

EntryExists(entryId) ==
    \E p \in DOMAIN remote : \E k \in 1..Len(remote[p]) : remote[p][k].id = entryId

\* What a remote call may do: 0, the service answers; or, while the fault
\* budget lasts, fail with a status code.
Outcomes == {0} \cup (IF faults < MaxFaults THEN ErrorCodes ELSE {})

\* The error, if any, of a call on playlist pid with outcome r: the service
\* answers 404 for a playlist it does not have.
PlaylistCallError(r, pid) ==
    IF r # 0 THEN r ELSE IF pid \in DOMAIN remote THEN 0 ELSE 404

EntryCallError(r, entryId) ==
    IF r # 0 THEN r ELSE IF EntryExists(entryId) THEN 0 ELSE 404

\* ------------------------------------------------------------- Utils.retry
ShouldRetryAlways(code) == TRUE

\* (error) => error.code === 401 ? true : error.code !== 404
ShouldRetryNot404(code) == IF code = 401 THEN TRUE ELSE code # 404

\* A backoff that doubles without the MAX_DELAY cap.
RetryDelayUncapped(att) == INITIAL_DELAY * Pow2(att - 1)

\* The backoff before the next attempt, after the attempt-th failure.
RetryDelay(att) == Min(INITIAL_DELAY * Pow2(att - 1), MAX_DELAY)

\* A retry that gives up one attempt early.
RetryThrowsEarly(att, maxAttempts, retryable) ==
    att >= maxAttempts - 1 \/ ~retryable

\* Utils.retry rethrows after the att-th failure (att already incremented).
RetryThrows(att, maxAttempts, retryable) == att = maxAttempts \/ ~retryable

\* --------------------------------------------------------------------- time
Capped(ms) == Min(ms, minApiCallInterval)

\* The setTimeout of Utils.retry that precedes a repeated attempt.
Backoff == IF attempt > 0 THEN RetryDelay(attempt) ELSE 0

\* ensureApiCallInterval: the sleep that brings Date.now() - lastApiCall up
\* to minApiCallInterval.
IntervalSleep ==
    IF sinceStamp < minApiCallInterval THEN minApiCallInterval - sinceStamp ELSE 0

\* A remote call starts after the run has slept wait ms, and takes
\* CallLatency to answer; stamped: lastApiCall = Date.now() was set on the
\* way to it.
StartCall(wait, stamped) ==
    /\ lastGap' = IF sinceCall = NoCall THEN NoCall ELSE Capped(sinceCall + wait)
    /\ sinceCall' = Capped(CallLatency)
    /\ sinceStamp' = IF stamped THEN Capped(CallLatency)
                      ELSE Capped(sinceStamp + wait + CallLatency)

\* The step makes no remote call and takes no time.
NoCallMade == UNCHANGED timeVars

\* -------------------------------------------------------- pure program parts
\* maxResults of playlistItems.list: the literal 50 of the rebuild draft,
\* MAX_RESULTS in the diff drafts.
RebuildListMax == 50
ListMaxResults ==
    CASE variant = "rebuild" -> RebuildListMax
      [] variant = "clear"   -> ClearListMax
      [] OTHER               -> MAX_RESULTS

\* response.data.items.filter(item => INCLUDE_PATTERNS.some(...))
FilteredItems(items) ==
    KeepIndices(items, {k \in 1..Len(items) : MatchesPattern(items[k].title)}, 1)

\* item => ({id, title, channelName, publishedAt})
MapCandidates(items) ==
    [k \in 1..Len(items) |->
        [id |-> items[k].videoId, title |-> items[k].title,
         publishedAt |-> items[k].publishedAt]]

\* A filter that looks at the title only.
shouldIncludeVideoTitleOnly(video) ==
    \E p \in 1..Len(INCLUDE_PATTERNS) : RegexTest(INCLUDE_PATTERNS[p], video.title)

\* shouldIncludeVideo: some pattern matches the title and the duration is
\* at least minDuration.
shouldIncludeVideo(video) ==
    \E p \in 1..Len(INCLUDE_PATTERNS) :
        /\ RegexTest(INCLUDE_PATTERNS[p], video.title)
        /\ parseDuration(video.duration) >= minDuration

\* A search page is asked for: its page token, and the candidates the
\* selector has when it asks.
PageRequest(token, have) == [token |-> token, have |-> have]

\* A paging loop without the ceiling on the pages it asks for.
ContinuePagingNoCeiling(lastPage, attempts, have) ==
    ~lastPage /\ have < MAX_RESULTS

\* getLatestVideos of the diff draft goes round its while loop again: no
\* break (empty page, no next page, attempts at the ceiling) and the loop
\* condition holds.
ContinuePaging(lastPage, attempts, have) ==
    /\ ~lastPage
    /\ attempts < maxTotalAttempts
    /\ have < MAX_RESULTS

\* for (const item of filteredItems) { if (videos.length >= MAX) break; push }
PushFiltered(vs, filtered) ==
    vs \o Slice(MapCandidates(filtered), 0, MAX_RESULTS - Len(vs))

\* newVideos.filter(video => !existingVideoIds.has(video.id))
VideosToAdd(newVideos, existing) ==
    KeepIndices(newVideos,
                {k \in 1..Len(newVideos) : newVideos[k].id \notin VideoIds(existing)}, 1)

\* The entries updatePlaylistItems removes once the inserts are done.
ItemsToRemove(existing, toAdd) ==
    IF variant = "diff"
    THEN LET totalItems == Len(existing) + Len(toAdd)
         IN  IF totalItems > MAX_RESULTS
             THEN Slice(existing, 0, totalItems - MAX_RESULTS)
             ELSE <<>>
    ELSE IF Len(existing) > MAX_RESULTS
         THEN Slice(existing, MAX_RESULTS, Len(existing))
         ELSE <<>>

\* ------------------------------------------------------------------ actions
Mutation(op, pid, videoId, entryId) ==
    [op |-> op, playlist |-> pid, videoId |-> videoId, entry |-> entryId]

\* The error reaches updatePlaylist().catch: process.exit(1).
ExitWith(code) ==
    /\ pc' = "exit"
    /\ exitCode' = code

\* Where updatePlaylist goes on once it has its playlist id.
AfterPlaylist == IF variant = "clear" THEN "list" ELSE "search"

\* new YouTubeClient(): the diff draft's constructor calls
\* Utils.validateEnvVars, which wants YOUTUBE_PLAYLIST_ID set. (The clear
\* draft checks its four other variables and sets the credentials.)
NewYouTubeClient ==
    /\ pc = "start"
    /\ IF variant = "diff" /\ envPlaylistId = NoId
       THEN ExitWith(1)
       ELSE /\ pc' = IF variant \in {"diff", "clear"} THEN "getOrCreate"
                     ELSE "search"
            /\ UNCHANGED exitCode
    /\ UNCHANGED <<envVars, remoteVars, run, playlistId, selVars, recVars,
                   idx, attempt, faults, histVars>>
    /\ UNCHANGED <<externals, retryVars, filterVars>>
    /\ NoCallMade

\* getOrCreatePlaylist (diff and clear drafts) up to the existence check:
\* any error of playlists.list is taken to mean that the playlist is gone.
GetOrCreatePlaylist ==
    /\ pc = "getOrCreate"
    /\ IF variant = "diff" /\ ~clientRefresh
       THEN \* ensureValidToken: refreshTokenIfNeeded is not a function
            /\ ExitWith(1)
            /\ UNCHANGED <<playlistId, faults>>
       ELSE IF envPlaylistId = NoId
       THEN \* if (savedPlaylistId) is skipped
            /\ pc' = "create"
            /\ UNCHANGED <<playlistId, faults, exitCode>>
       ELSE \E r \in Outcomes :
              /\ faults' = faults + (IF r = 0 THEN 0 ELSE 1)
              /\ UNCHANGED exitCode
              /\ IF PlaylistCallError(r, envPlaylistId) = 0
                 THEN /\ playlistId' = envPlaylistId
                      /\ pc' = AfterPlaylist
                 ELSE /\ pc' = "create"
                      /\ UNCHANGED playlistId
    /\ UNCHANGED <<envVars, remoteVars, run, selVars, recVars, idx, attempt,
                   histVars>>
    /\ UNCHANGED <<externals, retryVars, filterVars>>
    /\ IF (variant = "diff" /\ ~clientRefresh) \/ envPlaylistId = NoId
       THEN NoCallMade
       ELSE StartCall(0, FALSE)

\* getOrCreatePlaylist: one attempt of playlists.insert (retried in the diff
\* draft only).
CreatePlaylist ==
    /\ pc = "create"
    /\ \E r \in Outcomes :
         IF r = 0
         THEN /\ remote' = remote @@ (nextPlaylistId :> <<>>)
              /\ nextPlaylistId' = nextPlaylistId + 1
              /\ playlistId' = nextPlaylistId
              /\ mutations' = Append(mutations, Mutation("create", nextPlaylistId, 0, 0))
              /\ pc' = AfterPlaylist
              /\ attempt' = 0
              /\ UNCHANGED <<faults, exitCode>>
         ELSE /\ faults' = faults + 1
              /\ UNCHANGED <<remote, nextPlaylistId, playlistId, mutations>>
              /\ IF \/ variant # "diff"
                    \/ RetryThrows(attempt + 1, MAX_ATTEMPTS, ShouldRetryNot404(r))
                 THEN /\ ExitWith(1)
                      /\ attempt' = 0
                 ELSE /\ attempt' = attempt + 1
                      /\ UNCHANGED <<pc, exitCode>>
    /\ UNCHANGED <<envVars, nextEntryId, run, selVars, recVars, idx,
                   preItems, reconciled, selectorError, fetched, calledWith, prev>>
    /\ UNCHANGED <<externals, retryVars, filterVars>>
    /\ StartCall(Backoff, FALSE)

\* clearPlaylist, its playlistItems.list: the entries to delete; an error
\* ends the run.
ClearPlaylist ==
    /\ pc = "list"
    /\ variant = "clear"
    /\ \E r \in Outcomes :
         LET code == PlaylistCallError(r, playlistId)
         IN  /\ faults' = faults + (IF r = 0 THEN 0 ELSE 1)
             /\ calledWith' = calledWith \cup {playlistId}
             /\ IF code = 0
                THEN /\ existingItems' = PlaylistItemsList(playlistId, ListMaxResults)
                     /\ preItems' = remote[playlistId]
                     /\ pc' = "delete"
                     /\ UNCHANGED exitCode
                ELSE /\ ExitWith(1)
                     /\ UNCHANGED <<existingItems, preItems>>
    /\ idx' = 1
    /\ UNCHANGED <<envVars, remoteVars, run, playlistId, selVars, videosToAdd,
                   itemsToRemove, playlistCache, attempt, mutations, reconciled,
                   selectorError, fetched, prev>>
    /\ UNCHANGED <<externals, retryVars, filterVars>>
    /\ StartCall(0, FALSE)

\* getLatestVideos of the clear draft, its search (10 results, one page): an
\* error is caught and [] returned.
ClearGetLatestVideos ==
    /\ pc = "search"
    /\ variant = "clear"
    /\ \E r \in Outcomes :
         IF r = 0
         THEN /\ pc' = "details"
              /\ UNCHANGED <<faults, selectorError, fetched>>
         ELSE /\ faults' = faults + 1
              /\ selectorError' = TRUE
              /\ fetched' = TRUE
              /\ pc' = "insert"
    /\ videos' = <<>>
    /\ idx' = 1
    /\ pageLog' = Append(pageLog, PageRequest(0, 0))
    /\ UNCHANGED <<envVars, remoteVars, run, exitCode, playlistId, nextPageToken,
                   totalAttempts, recVars, attempt, mutations, preItems,
                   reconciled, calledWith, prev>>
    /\ UNCHANGED <<externals, retryVars, filterVars>>
    /\ StartCall(0, FALSE)

\* getLatestVideos of the clear draft, its loop over the search results:
\* getVideoDetails (null on an error) and shouldIncludeVideo decide whether
\* the video is pushed.
GetVideoDetails ==
    /\ pc = "details"
    /\ LET items == SearchList(ClearSearchMax, 0).items
       IN  /\ idx <= Len(items)
           /\ \E r \in Outcomes :
                LET item == items[idx]
                    videoDetails == VideoDetails(item.videoId)
                IN  /\ faults' = faults + (IF r = 0 THEN 0 ELSE 1)
                    /\ videos' =
                         IF r = 0 /\ shouldIncludeVideo(videoDetails)
                         THEN Append(videos,
                                [id |-> item.videoId, title |-> item.title,
                                 publishedAt |-> item.publishedAt,
                                 duration |-> parseDuration(videoDetails.duration)])
                         ELSE videos
    /\ idx' = idx + 1
    /\ UNCHANGED <<envVars, remoteVars, pc, run, exitCode, playlistId,
                   nextPageToken, pageLog, totalAttempts, recVars, attempt, histVars>>
    /\ UNCHANGED <<externals, retryVars, filterVars>>
    /\ StartCall(0, FALSE)

\* getLatestVideos of the clear draft returns; updatePlaylist sorts.
ClearVideosSorted ==
    /\ pc = "details"
    /\ idx > Len(SearchList(ClearSearchMax, 0).items)
    /\ videos' = SortByPublishedDesc(videos)
    /\ fetched' = TRUE
    /\ pc' = "insert"
    /\ idx' = 1
    /\ UNCHANGED <<envVars, remoteVars, run, exitCode, playlistId, nextPageToken, pageLog,
                   totalAttempts, recVars, attempt, faults, mutations, preItems,
                   reconciled, selectorError, calledWith, prev>>
    /\ UNCHANGED <<externals, retryVars, filterVars>>
    /\ NoCallMade

\* VideoCollector.getLatestVideos of the diff draft: one attempt of one
\* page of the search, and what the loop does with the page.
GetLatestVideosPage ==
    /\ pc = "search"
    /\ variant = "diff"
    /\ \E r \in Outcomes :
         IF r = 0
         THEN LET resp == SearchList(BATCH_SIZE, nextPageToken)
                  noItems == resp.items = <<>>
                  pushed == IF noItems THEN videos
                            ELSE PushFiltered(videos, FilteredItems(resp.items))
                  lastPage == noItems \/ resp.nextPageToken = 0
                  again == ContinuePaging(lastPage, totalAttempts + 1, Len(pushed))
              IN  /\ videos' = IF again THEN pushed ELSE Slice(pushed, 0, MAX_RESULTS)
                  /\ nextPageToken' = IF noItems THEN nextPageToken
                                      ELSE resp.nextPageToken
                  /\ totalAttempts' = IF lastPage THEN totalAttempts
                                      ELSE totalAttempts + 1
                  /\ pc' = IF again THEN "search" ELSE "decide"
                  /\ fetched' = ~again
                  /\ attempt' = 0
                  /\ UNCHANGED <<faults, selectorError>>
         ELSE /\ faults' = faults + 1
              /\ UNCHANGED <<nextPageToken, totalAttempts>>
              /\ IF RetryThrows(attempt + 1, MAX_ATTEMPTS, ShouldRetryAlways(r))
                 THEN \* caught by getLatestVideos: return []
                      /\ videos' = <<>>
                      /\ selectorError' = TRUE
                      /\ fetched' = TRUE
                      /\ pc' = "decide"
                      /\ attempt' = 0
                 ELSE /\ attempt' = attempt + 1
                      /\ UNCHANGED <<videos, selectorError, fetched, pc>>
    /\ pageLog' = IF attempt = 0
                  THEN Append(pageLog, PageRequest(nextPageToken, Len(videos)))
                  ELSE pageLog
    /\ UNCHANGED <<envVars, remoteVars, run, exitCode, playlistId, recVars, idx,
                   mutations, preItems, reconciled, calledWith, prev>>
    /\ UNCHANGED <<externals, retryVars, filterVars>>
    /\ IF attempt = 0
       THEN StartCall(IntervalSleep, TRUE)
       ELSE StartCall(Backoff, FALSE)

\* VideoCollector.getLatestVideos of the rebuild and simple drafts: one
\* search, not retried; an error is caught and [] returned.
GetLatestVideosOnce ==
    /\ pc = "search"
    /\ variant \in {"rebuild", "simple"}
    /\ \E r \in Outcomes :
         IF r = 0
         THEN LET resp == SearchList(IF variant = "rebuild" THEN BATCH_SIZE
                                     ELSE MAX_RESULTS, 0)
                  filtered == FilteredItems(resp.items)
              IN  /\ videos' = IF variant = "rebuild"
                               THEN MapCandidates(Slice(filtered, 0, MAX_RESULTS))
                               ELSE MapCandidates(filtered)
                  /\ UNCHANGED <<faults, selectorError>>
         ELSE /\ faults' = faults + 1
              /\ videos' = <<>>
              /\ selectorError' = TRUE
    /\ pc' = "decide"
    /\ fetched' = TRUE
    /\ pageLog' = Append(pageLog, PageRequest(0, 0))
    /\ UNCHANGED <<envVars, remoteVars, run, exitCode, playlistId, nextPageToken,
                   totalAttempts, recVars, idx, attempt, mutations, preItems,
                   reconciled, calledWith, prev>>
    /\ UNCHANGED <<externals, retryVars, filterVars>>
    /\ StartCall(0, FALSE)

\* updatePlaylist after the selector: nothing to do on an empty list, else
\* (the diff draft sorts first) updatePlaylistItems is invoked.
InvokeReconciler ==
    /\ pc = "decide"
    /\ IF videos = <<>>
       THEN /\ ExitWith(0)
            /\ UNCHANGED <<playlistId, videos, preItems, reconciled>>
       ELSE LET pid == IF variant = "diff" THEN playlistId ELSE envPlaylistId
            IN  /\ videos' = IF variant = "diff" THEN SortByPublishedDesc(videos)
                             ELSE videos
                /\ playlistId' = pid
                /\ preItems' = IF pid \in DOMAIN remote THEN remote[pid] ELSE <<>>
                /\ reconciled' = TRUE
                /\ pc' = "list"
                /\ UNCHANGED exitCode
    /\ UNCHANGED <<envVars, remoteVars, run, nextPageToken, pageLog, totalAttempts, recVars,
                   idx, attempt, faults, mutations, selectorError, fetched,
                   calledWith, prev>>
    /\ UNCHANGED <<externals, retryVars, filterVars>>
    /\ NoCallMade

\* updatePlaylistItems has its baseline: the diff drafts compute what to
\* add, the rebuild draft goes on to delete every entry it read.
HaveExisting(items) ==
    /\ existingItems' = items
    /\ videosToAdd' = IF variant = "rebuild" THEN <<>> ELSE VideosToAdd(videos, items)
    /\ pc' = IF variant = "rebuild" THEN "delete" ELSE "insert"
    /\ idx' = 1
    /\ attempt' = 0

\* PlaylistManager.getPlaylistItems, called by updatePlaylistItems: the cache,
\* else one attempt of playlistItems.list (retried in the diff draft only);
\* an error that is not retried is caught and [] returned.
GetPlaylistItems ==
    /\ pc = "list"
    /\ variant # "clear"
    /\ IF variant = "diff" /\ playlistId \in DOMAIN playlistCache
       THEN /\ HaveExisting(playlistCache[playlistId])
            /\ UNCHANGED <<playlistCache, faults, calledWith>>
       ELSE \E r \in Outcomes :
              LET code == PlaylistCallError(r, playlistId)
                  items == PlaylistItemsList(playlistId, ListMaxResults)
              IN  /\ faults' = faults + (IF r = 0 THEN 0 ELSE 1)
                  /\ calledWith' = calledWith \cup {playlistId}
                  /\ IF code = 0
                     THEN /\ HaveExisting(items)
                          /\ playlistCache' =
                               IF variant = "diff"
                               THEN [p \in DOMAIN playlistCache \cup {playlistId} |->
                                        IF p = playlistId THEN items ELSE playlistCache[p]]
                               ELSE playlistCache
                     ELSE /\ UNCHANGED playlistCache
                          /\ IF \/ variant # "diff"
                                \/ RetryThrows(attempt + 1, MAX_ATTEMPTS,
                                               ShouldRetryNot404(code))
                             THEN HaveExisting(<<>>)
                             ELSE /\ attempt' = attempt + 1
                                  /\ UNCHANGED <<existingItems, videosToAdd, pc, idx>>
    /\ UNCHANGED <<envVars, remoteVars, run, exitCode, playlistId, selVars,
                   itemsToRemove, mutations, preItems, reconciled, selectorError,
                   fetched, prev>>
    /\ UNCHANGED <<externals, retryVars, filterVars>>
    /\ IF variant = "diff" /\ playlistId \in DOMAIN playlistCache
       THEN NoCallMade
       ELSE StartCall(Backoff, FALSE)

\* The list the insert loop walks.
InsertList == IF variant \in {"rebuild", "clear"} THEN videos ELSE videosToAdd

\* The list the delete loop walks.
DeleteList ==
    IF variant \in {"rebuild", "clear"} THEN existingItems ELSE itemsToRemove

\* Whether the service wrote the entry although the insert reported an
\* error: a server error (or a timeout) may come after the write; every
\* other failure comes before it.
InsertApplied(r) ==
    IF r = 500 /\ faults < MaxAmbiguous /\ playlistId \in DOMAIN remote
    THEN BOOLEAN ELSE {FALSE}

\* updatePlaylistItems, the insert loop: one attempt of the insert of
\* InsertList[idx] (retried in the diff draft only); an error that is not
\* retried ends the run, but addVideoToPlaylist of the clear draft logs it
\* and the loop goes on.
InsertVideo ==
    /\ pc = "insert"
    /\ idx <= Len(InsertList)
    /\ \E r \in Outcomes : \E applied \in InsertApplied(r) :
         LET code == PlaylistCallError(r, playlistId)
             video == InsertList[idx]
         IN  /\ faults' = faults + (IF r = 0 THEN 0 ELSE 1)
             /\ calledWith' = calledWith \cup {playlistId}
             /\ IF code = 0 \/ applied
                THEN /\ remote' = PlaylistItemsInsert(playlistId, video.id)
                     /\ nextEntryId' = nextEntryId + 1
                     /\ mutations' = Append(mutations,
                            Mutation("insert", playlistId, video.id, nextEntryId))
                ELSE UNCHANGED <<remote, nextEntryId, mutations>>
             /\ IF code = 0
                THEN /\ idx' = idx + 1
                     /\ attempt' = 0
                     /\ UNCHANGED <<pc, exitCode>>
                ELSE IF variant = "clear"
                     THEN /\ idx' = idx + 1
                          /\ UNCHANGED <<pc, exitCode, attempt>>
                     ELSE /\ UNCHANGED idx
                          /\ IF \/ variant # "diff"
                                \/ RetryThrows(attempt + 1, MAX_ATTEMPTS,
                                               ShouldRetryNot404(code))
                             THEN /\ ExitWith(1)
                                  /\ attempt' = 0
                             ELSE /\ attempt' = attempt + 1
                                  /\ UNCHANGED <<pc, exitCode>>
    /\ UNCHANGED <<envVars, nextPlaylistId, run, playlistId, selVars, recVars,
                   preItems, reconciled, selectorError, fetched, prev>>
    /\ UNCHANGED <<externals, retryVars, filterVars>>
    /\ StartCall(Backoff, FALSE)

\* The insert loop is over: the diff drafts choose the entries to evict, the
\* rebuild and clear drafts are done.
InsertsDone ==
    /\ pc = "insert"
    /\ idx > Len(InsertList)
    /\ IF variant \in {"rebuild", "clear"}
       THEN /\ ExitWith(0)
            /\ UNCHANGED <<itemsToRemove, idx>>
       ELSE /\ itemsToRemove' = ItemsToRemove(existingItems, videosToAdd)
            /\ pc' = "delete"
            /\ idx' = 1
            /\ UNCHANGED exitCode
    /\ UNCHANGED <<envVars, remoteVars, run, playlistId, selVars, existingItems,
                   videosToAdd, playlistCache, attempt, faults, histVars>>
    /\ UNCHANGED <<externals, retryVars, filterVars>>
    /\ NoCallMade

\* updatePlaylistItems, the delete loop: one attempt of the delete of
\* DeleteList[idx] (retried in the diff draft only); an error that is not
\* retried ends the run.
DeleteItem ==
    /\ pc = "delete"
    /\ idx <= Len(DeleteList)
    /\ \E r \in Outcomes :
         LET item == DeleteList[idx]
             code == EntryCallError(r, item.id)
         IN  /\ faults' = faults + (IF r = 0 THEN 0 ELSE 1)
             /\ IF code = 0
                THEN /\ remote' = PlaylistItemsDelete(item.id)
                     /\ mutations' = Append(mutations,
                            Mutation("delete", playlistId, item.videoId, item.id))
                     /\ idx' = idx + 1
                     /\ attempt' = 0
                     /\ UNCHANGED <<pc, exitCode>>
                ELSE /\ UNCHANGED <<remote, mutations, idx>>
                     /\ IF \/ variant # "diff"
                           \/ RetryThrows(attempt + 1, MAX_ATTEMPTS,
                                          ShouldRetryNot404(code))
                        THEN /\ ExitWith(1)
                             /\ attempt' = 0
                        ELSE /\ attempt' = attempt + 1
                             /\ UNCHANGED <<pc, exitCode>>
    /\ UNCHANGED <<envVars, nextEntryId, nextPlaylistId, run, playlistId, selVars,
                   recVars, preItems, reconciled, selectorError, fetched,
                   calledWith, prev>>
    /\ UNCHANGED <<externals, retryVars, filterVars>>
    /\ StartCall(Backoff, FALSE)

\* The delete loop is over: the rebuild draft goes on to insert and the
\* clear draft to its search; the diff draft drops the playlist from its
\* cache, and updatePlaylistItems returns.
DeletesDone ==
    /\ pc = "delete"
    /\ idx > Len(DeleteList)
    /\ IF variant \in {"rebuild", "clear"}
       THEN /\ pc' = IF variant = "clear" THEN "search" ELSE "insert"
            /\ idx' = 1
            /\ UNCHANGED <<exitCode, playlistCache>>
       ELSE /\ ExitWith(0)
            /\ playlistCache' =
                 [p \in DOMAIN playlistCache \ {playlistId} |-> playlistCache[p]]
            /\ UNCHANGED idx
    /\ UNCHANGED <<envVars, remoteVars, run, playlistId, selVars, existingItems,
                   videosToAdd, itemsToRemove, attempt, faults, histVars>>
    /\ UNCHANGED <<externals, retryVars, filterVars>>
    /\ NoCallMade

\* Somebody else deletes, between the run's read of the playlist and its
\* playlistItems.delete, the entry the run is about to delete.
ExternalDelete ==
    /\ pc = "delete"
    /\ idx <= Len(DeleteList)
    /\ externals < MaxExternal
    /\ EntryExists(DeleteList[idx].id)
    /\ remote' = PlaylistItemsDelete(DeleteList[idx].id)
    /\ externals' = externals + 1
    /\ UNCHANGED <<envVars, nextEntryId, nextPlaylistId, pc, run, exitCode,
                   playlistId, selVars, recVars, idx, attempt, faults, histVars,
                   retryVars, timeVars, filterVars>>

\* The scheduler starts the job again: a new process, the same environment,
\* channel and service.
NextRun ==
    /\ pc = "exit"
    /\ run < MaxRuns
    /\ prev' = [exit |-> exitCode, videos |-> videos, reconciled |-> reconciled]
    /\ run' = run + 1
    /\ pc' = "start"
    /\ exitCode' = Running
    /\ playlistId' = NoId
    /\ videos' = <<>>
    /\ nextPageToken' = 0
    /\ pageLog' = <<>>
    /\ totalAttempts' = 0
    /\ existingItems' = <<>>
    /\ videosToAdd' = <<>>
    /\ itemsToRemove' = <<>>
    /\ idx' = 1
    /\ attempt' = 0
    /\ playlistCache' = <<>>
    /\ mutations' = <<>>
    /\ preItems' = <<>>
    /\ reconciled' = FALSE
    /\ selectorError' = FALSE
    /\ fetched' = FALSE
    /\ calledWith' = {}
    /\ UNCHANGED <<envVars, remoteVars, faults>>
    /\ UNCHANGED <<externals, retryVars, filterVars>>
    /\ sinceCall' = NoCall
    /\ sinceStamp' = minApiCallInterval
    /\ lastGap' = NoCall

Next ==
    \/ NewYouTubeClient
    \/ GetOrCreatePlaylist
    \/ CreatePlaylist
    \/ GetLatestVideosPage
    \/ GetLatestVideosOnce
    \/ ClearPlaylist
    \/ ClearGetLatestVideos
    \/ GetVideoDetails
    \/ ClearVideosSorted
    \/ InvokeReconciler
    \/ GetPlaylistItems
    \/ InsertVideo
    \/ InsertsDone
    \/ DeleteItem
    \/ DeletesDone
    \/ ExternalDelete
    \/ NextRun

Spec == Init /\ [][Next]_vars

\* -------------------------------------------------------- Utils.retry alone
\* Utils.retry(fn, context, maxAttempts, shouldRetry) as a machine of its
\* own: fn is one remote call, which the service answers (0) or fails with a
\* status code, every time it is invoked.
Sites == {"search", "create", "list", "insert", "delete"}

\* The shouldRetry the call site passes: none at the search (the default,
\* () => true), the 401/404 predicate everywhere else.
ShouldRetryAt(site, code) ==
    IF site = "search" THEN ShouldRetryAlways(code) ELSE ShouldRetryNot404(code)

\* The job itself stands still, at the given place, while one of its
\* functions is looked at.
Suspended(at) ==
    /\ variant = "diff"
    /\ clientRefresh = FALSE
    /\ envPlaylistId = ConfiguredId
    /\ uploads = 0
    /\ titleMode = "all"
    /\ searchOrder = "date"
    /\ remote = <<>>
    /\ nextEntryId = 100
    /\ nextPlaylistId = 2
    /\ pc = at
    /\ run = 1
    /\ exitCode = Running
    /\ playlistId = NoId
    /\ videos = <<>>
    /\ nextPageToken = 0
    /\ pageLog = <<>>
    /\ totalAttempts = 0
    /\ existingItems = <<>>
    /\ videosToAdd = <<>>
    /\ itemsToRemove = <<>>
    /\ idx = 1
    /\ attempt = 0
    /\ playlistCache = <<>>
    /\ faults = 0
    /\ mutations = <<>>
    /\ preItems = <<>>
    /\ reconciled = FALSE
    /\ selectorError = FALSE
    /\ fetched = FALSE
    /\ calledWith = {}
    /\ prev = NoPrev
    /\ externals = 0
    /\ ClockInit

\* The job stands still while Utils.retry is looked at.
MainIdle == Suspended("retry")

mainVars == <<envVars, remoteVars, pc, run, exitCode, playlistId, selVars, recVars,
              idx, attempt, faults, histVars, externals, timeVars>>

\* let attempt = 0; the loop is entered (maxAttempts is at least 1).
RetryInit ==
    /\ MainIdle
    /\ FilterIdle
    /\ rSite \in Sites
    /\ rMax \in 1..MaxRetryAttempts
    /\ rAttempt = 0
    /\ rPc = "call"
    /\ rLog = <<>>
    /\ rDelays = <<>>
    /\ rThrown = 0

\* try { return await fn.call(context) } catch (error) { attempt++; throw
\* or compute the delay and start the timer }
RetryInvoke ==
    /\ rPc = "call"
    /\ \E r \in {0} \cup ErrorCodes :
         /\ rLog' = Append(rLog, r)
         /\ IF r = 0
            THEN /\ rPc' = "returned"
                 /\ UNCHANGED <<rAttempt, rDelays, rThrown>>
            ELSE /\ rAttempt' = rAttempt + 1
                 /\ IF RetryThrows(rAttempt + 1, rMax, ShouldRetryAt(rSite, r))
                    THEN /\ rPc' = "threw"
                         /\ rThrown' = r
                         /\ UNCHANGED rDelays
                    ELSE /\ rPc' = "wait"
                         /\ rDelays' = Append(rDelays, RetryDelay(rAttempt + 1))
                         /\ UNCHANGED rThrown
    /\ UNCHANGED <<mainVars, filterVars, rSite, rMax>>

\* The timer of setTimeout(resolve, delay) fires: while (attempt <
\* maxAttempts) goes round.
RetryTimeout ==
    /\ rPc = "wait"
    /\ rAttempt < rMax
    /\ rPc' = "call"
    /\ UNCHANGED <<mainVars, filterVars, rSite, rMax, rAttempt, rLog, rDelays,
                   rThrown>>

RetryNext ==
    \/ RetryInvoke
    \/ RetryTimeout

RetrySpec == RetryInit /\ [][RetryNext]_vars

\* ------------------------------------------------ the playlist manager alone
\* One PlaylistManager of the diff draft, with its playlistCache, whose
\* holder calls updatePlaylistItems(playlistId, videos) and, after it has
\* returned or thrown, calls it again on the same object.  (updatePlaylist
\* itself makes one call per process.)
CacheScenarios == { Sc(3, "all", 0, 0), Sc(30, "all", 20, 29) }

\* updatePlaylistItems has been called with the sorted candidates of the
\* channel's first search page and is about to read the playlist.
CacheInit ==
    /\ variant = "diff"
    /\ clientRefresh = TRUE
    /\ envPlaylistId = ConfiguredId
    /\ \E sc \in CacheScenarios :
         /\ uploads = sc.uploads
         /\ titleMode = sc.titleMode
         /\ searchOrder = sc.order
         /\ remote = [p \in {ConfiguredId} |-> InitialPlaylist(sc.size, sc.top, TRUE)]
    /\ nextEntryId = 100
    /\ nextPlaylistId = 2
    /\ pc = "list"
    /\ run = 1
    /\ exitCode = Running
    /\ playlistId = ConfiguredId
    /\ videos = SortByPublishedDesc(
                   PushFiltered(<<>>, FilteredItems(SearchList(BATCH_SIZE, 0).items)))
    /\ nextPageToken = 0
    /\ totalAttempts = 0
    /\ pageLog = <<PageRequest(0, 0)>>
    /\ existingItems = <<>>
    /\ videosToAdd = <<>>
    /\ itemsToRemove = <<>>
    /\ idx = 1
    /\ attempt = 0
    /\ playlistCache = <<>>
    /\ faults = 0
    /\ mutations = <<>>
    /\ preItems = remote[ConfiguredId]
    /\ reconciled = TRUE
    /\ selectorError = FALSE
    /\ fetched = TRUE
    /\ calledWith = {}
    /\ prev = NoPrev
    /\ externals = 0
    /\ RetryIdle
    /\ ClockInit
    /\ FilterIdle

\* The holder calls updatePlaylistItems again, with the same arguments, on
\* the same PlaylistManager: its playlistCache is what the call before left.
UpdateAgain ==
    /\ pc = "exit"
    /\ run < MaxRuns
    /\ prev' = [exit |-> exitCode, videos |-> videos, reconciled |-> reconciled]
    /\ run' = run + 1
    /\ pc' = "list"
    /\ exitCode' = Running
    /\ existingItems' = <<>>
    /\ videosToAdd' = <<>>
    /\ itemsToRemove' = <<>>
    /\ idx' = 1
    /\ attempt' = 0
    /\ mutations' = <<>>
    /\ preItems' = remote[playlistId]
    /\ UNCHANGED <<envVars, remoteVars, playlistId, selVars, playlistCache, faults,
                   reconciled, selectorError, fetched, calledWith, externals,
                   retryVars, timeVars, filterVars>>

\* cacheExpiryTime (five minutes) goes by between two calls: Date.now() <
\* cachedData.expiryTime is false from now on for every entry, which is as
\* if the cache held none.
CacheExpires ==
    /\ pc = "exit"
    /\ playlistCache # <<>>
    /\ playlistCache' = <<>>
    /\ UNCHANGED <<envVars, remoteVars, pc, run, exitCode, playlistId, selVars,
                   existingItems, videosToAdd, itemsToRemove, idx, attempt, faults,
                   histVars, externals, retryVars, timeVars, filterVars>>

CacheNext ==
    \/ GetPlaylistItems
    \/ InsertVideo
    \/ InsertsDone
    \/ DeleteItem
    \/ DeletesDone
    \/ UpdateAgain
    \/ CacheExpires

CacheSpec == CacheInit /\ [][CacheNext]_vars

\* --------------------------------------------------------- the filter alone
\* parseDuration and shouldIncludeVideo of the clear draft as functions of
\* their argument: a video with one of the channel's titles and a duration
\* string, which is one of the channel's, a full PT#H#M#S, or any string of
\* at most MaxDurationLen characters of DurationAlphabet.
DurationAlphabet == {"P", "T", "1", "M", "S"}

DurationInputs ==
    Range(Durations)
      \cup { <<"P","T","1","H","2","M","3","S">>, <<"P","T","5","M","3","H">> }
      \cup UNION { [1..n -> DurationAlphabet] : n \in 0..MaxDurationLen }

FilterInit ==
    /\ Suspended("filter")
    /\ RetryIdle
    /\ fTitle \in Range(Titles)
    /\ fDuration \in DurationInputs
    /\ fSeconds = 0
    /\ fIncluded = FALSE
    /\ fPc = "call"

\* const duration = parseDuration(video.contentDetails.duration)
ParseDurationCall ==
    /\ fPc = "call"
    /\ fSeconds' = parseDuration(fDuration)
    /\ fPc' = "parsed"
    /\ UNCHANGED <<mainVars, retryVars, fTitle, fDuration, fIncluded>>

\* shouldIncludeVideo(videoDetails)
ShouldIncludeVideoCall ==
    /\ fPc = "parsed"
    /\ fIncluded' = shouldIncludeVideo([title |-> fTitle, duration |-> fDuration])
    /\ fPc' = "done"
    /\ UNCHANGED <<mainVars, retryVars, fTitle, fDuration, fSeconds>>

FilterNext ==
    \/ ParseDurationCall
    \/ ShouldIncludeVideoCall

FilterSpec == FilterInit /\ [][FilterNext]_vars

\* ------------------------------------------------------------------- claims
\* The entries of the playlist the run works on (none if it does not exist).
Entries == IF playlistId \in DOMAIN remote THEN remote[playlistId] ELSE <<>>

NoDuplicates(items) ==
    \A a, b \in 1..Len(items) : a # b => items[a].videoId # items[b].videoId

\* updatePlaylistItems of a diff draft has returned normally.
ReconcilerReturned ==
    /\ pc = "exit"
    /\ exitCode = 0
    /\ reconciled
    /\ variant \in {"diff", "simple"}

MutationsOf(op) == {k \in 1..Len(mutations) : mutations[k].op = op}

\* C1 (size invariant): once updatePlaylistItems has returned on a playlist
\* that held at most MAX_RESULTS entries (the search results having come
\* most recent first), the playlist holds at most MAX_RESULTS entries.
C1_SizeInvariant ==
    (ReconcilerReturned /\ Len(preItems) <= MAX_RESULTS /\ searchOrder = "date")
        => Len(Entries) <= MAX_RESULTS

\* C2 (dedup invariant): once updatePlaylistItems has returned on a playlist
\* that had no two entries of one video, the playlist has no two entries of
\* one video.
C2_DedupInvariant ==
    (ReconcilerReturned /\ NoDuplicates(preItems)) => NoDuplicates(Entries)

\* C3 (idempotence): the second of two runs that both invoked
\* updatePlaylistItems with the same candidates and ended with status 0,
\* no call failing and nothing else touching the playlist, issues no remote
\* mutation on a playlist of at most MAX_RESULTS entries (the client being
\* the YouTubeClient of the source).
C3_Idempotence ==
    ( /\ run = 2
      /\ ~clientRefresh
      /\ pc = "exit"
      /\ exitCode = 0
      /\ reconciled
      /\ Len(preItems) <= MAX_RESULTS
      /\ prev.exit = 0
      /\ prev.reconciled
      /\ prev.videos = videos
      /\ faults = 0
      /\ externals = 0 )
    => mutations = <<>>

\* C4 (eviction order): once updatePlaylistItems has returned on a playlist
\* that held at most MAX_RESULTS entries (the search results having come
\* most recent first), no entry it deleted is of a more recent video than
\* an entry that remains.
C4_EvictionOrder ==
    (ReconcilerReturned /\ Len(preItems) <= MAX_RESULTS /\ searchOrder = "date") =>
        \A d \in MutationsOf("delete") : \A k \in 1..Len(Entries) :
            PublishedAt(mutations[d].videoId) <= PublishedAt(Entries[k].videoId)

\* The candidates of the run that the playlist did not hold when
\* updatePlaylistItems began.
Absent == {k \in 1..Len(videos) : videos[k].id \notin VideoIds(preItems)}

\* C5 (insert-then-evict accounting): for e entries and a > 0 absent
\* candidates with e + a > MAX_RESULTS, a run without a failed call (the
\* search results having come most recent first) issues a inserts, then
\* e + a - MAX_RESULTS deletes, and leaves MAX_RESULTS entries.
C5_InsertThenEvict ==
    LET e == Len(preItems)
        a == Cardinality(Absent)
    IN  (ReconcilerReturned /\ faults = 0 /\ a > 0 /\ e + a > MAX_RESULTS
         /\ searchOrder = "date") =>
            /\ Len(mutations) = a + (e + a - MAX_RESULTS)
            /\ \A k \in 1..Len(mutations) :
                 mutations[k].op = IF k <= a THEN "insert" ELSE "delete"
            /\ Len(Entries) = MAX_RESULTS

\* C6 (ComputeDiff): in a run without a failed call, videosToAdd is the
\* candidates whose video the playlist did not hold, in the candidates'
\* order, and no video the playlist held is inserted.
C6_ComputeDiff ==
    ( /\ reconciled
      /\ variant \in {"diff", "simple"}
      /\ pc \in {"insert", "delete", "exit"}
      /\ faults = 0 ) =>
        /\ videosToAdd = KeepIndices(videos, Absent, 1)
        /\ \A k \in MutationsOf("insert") : mutations[k].videoId \notin VideoIds(preItems)

\* C7 (empty channel): a run on an existing configured playlist, no call
\* failing, whose selector returned no candidate never invokes
\* updatePlaylistItems, mutates nothing and exits with status 0.
C7_EmptyChannel ==
    ( /\ pc = "exit"
      /\ fetched
      /\ videos = <<>>
      /\ faults = 0
      /\ playlistId = ConfiguredId ) =>
        /\ ~reconciled
        /\ mutations = <<>>
        /\ exitCode = 0

\* C8 (exit status on error): a run in which a search error escaped its
\* retries does not exit with status 0.
C8_ExitStatusOnError == (pc = "exit" /\ selectorError) => exitCode # 0

\* C9 (fresh playlist creation): a run with no playlist identifier
\* configured, no call failing, creates one playlist, and its playlistItems
\* calls all use the identifier of that playlist.
C9_FreshPlaylist ==
    ( /\ pc = "exit"
      /\ variant \in {"diff", "clear"}
      /\ envPlaylistId = NoId
      /\ faults = 0 ) =>
        /\ Cardinality(MutationsOf("create")) = 1
        /\ \A k \in MutationsOf("create") : calledWith \subseteq {mutations[k].playlist}

\* The titles of the channel that contain [MV] or [Official Audio], in
\* whatever case.
MatchingTitles == {Titles[k] : k \in 1..4}

\* C10 (filter correctness): every candidate of the selector, and every
\* video a run inserts, has a title that matches an inclusion pattern.
C10_FilterCorrectness ==
    /\ \A k \in 1..Len(videos) : videos[k].title \in MatchingTitles
    /\ \A k \in MutationsOf("insert") :
         TitleOf(titleMode, mutations[k].videoId) \in MatchingTitles

\* C10 witness: the selector has returned candidates from a channel that
\* also has videos whose titles match no pattern.
C10_Witness ==
    /\ pc = "decide"
    /\ videos # <<>>
    /\ \E n \in 1..uploads : TitleOf(titleMode, n) \notin MatchingTitles

\* Every invocation of fn so far failed with an error shouldRetry accepts.
OnlyRetryableFailures ==
    \A j \in 1..Len(rLog) : rLog[j] # 0 /\ ShouldRetryAt(rSite, rLog[j])

\* C11 (transient failure then success): while fn has only failed with
\* retryable errors, fewer than maxAttempts times, Utils.retry has raised
\* nothing and goes on; and when the k-th invocation succeeds, it has
\* returned after exactly k invocations, k - 1 of them failures, and raised
\* nothing.
C11_TransientThenSuccess ==
    /\ (OnlyRetryableFailures /\ Len(rLog) < rMax) =>
          (rPc \in {"call", "wait"} /\ rThrown = 0)
    /\ (rLog # <<>> /\ rLog[Len(rLog)] = 0) =>
          /\ rPc = "returned"
          /\ rThrown = 0
          /\ Len(rLog) <= rMax
          /\ rAttempt = Len(rLog) - 1
          /\ \A j \in 1..(Len(rLog) - 1) : rLog[j] # 0

\* C11 witness: one failure with status 500, then success on attempt 2 of
\* MAX_ATTEMPTS.
C11_Witness ==
    /\ rMax = MAX_ATTEMPTS
    /\ rLog = <<500, 0>>
    /\ rPc = "returned"

\* C12 (convergence): once updatePlaylistItems has returned, no call having
\* failed, the search results having come most recent first and nobody else
\* having touched the playlist, which held at most MAX_RESULTS entries,
\* every candidate is in the playlist.
C12_Convergence ==
    ( /\ ReconcilerReturned
      /\ faults = 0
      /\ externals = 0
      /\ searchOrder = "date"
      /\ Len(preItems) <= MAX_RESULTS ) =>
        \A k \in 1..Len(videos) : videos[k].id \in VideoIds(Entries)

\* A run has gone through its changes of the playlist and ended with
\* status 0.
RunCompleted ==
    /\ pc = "exit"
    /\ exitCode = 0
    /\ reconciled \/ variant = "clear"

\* C13 (no retroactive removal): after a run with candidates, no call
\* having failed and nobody else having touched the playlist, whose entries
\* and absent candidates together were at most MAX_RESULTS, every entry the
\* playlist held before the run is still there.
C13_NoRetroactiveRemoval ==
    ( /\ RunCompleted
      /\ videos # <<>>
      /\ faults = 0
      /\ externals = 0
      /\ Len(preItems) + Cardinality(Absent) <= MAX_RESULTS ) =>
        \A k \in 1..Len(preItems) : preItems[k] \in Range(Entries)

\* The entries are in the order of their videos' publishedAt, most recent
\* first.
OrderedByPublishedDesc(items) ==
    \A a, b \in 1..Len(items) :
        a < b => PublishedAt(items[a].videoId) >= PublishedAt(items[b].videoId)

\* C14 (playlist order): after a run, no call having failed and nobody else
\* having touched the playlist, a playlist that was in the order of
\* publishedAt descending still is.
C14_PlaylistOrder ==
    ( /\ RunCompleted
      /\ faults = 0
      /\ externals = 0
      /\ OrderedByPublishedDesc(preItems) ) =>
        OrderedByPublishedDesc(Entries)

\* C15 (per-item insert failure): no step of the insert loop of
\* updatePlaylistItems on an existing playlist ends the run with a non-zero
\* status: a failed insert is skipped and the run goes on.
C15_InsertFailureSkipped ==
    [][ ( /\ pc = "insert"
          /\ variant \in {"diff", "simple"}
          /\ playlistId \in DOMAIN remote ) =>
            ~(pc' = "exit" /\ exitCode' # 0) ]_vars

\* C16 (delete of a missing entry): in the eviction loop of
\* updatePlaylistItems, the delete of an entry that the service no longer
\* has (it answers 404) does not end the run with a non-zero status.
C16_MissingEntryDelete ==
    [][ ( /\ pc = "delete"
          /\ variant \in {"diff", "simple"}
          /\ idx <= Len(DeleteList)
          /\ ~EntryExists(DeleteList[idx].id) ) =>
            ~(pc' = "exit" /\ exitCode' # 0 /\ faults' = faults) ]_vars

\* C17 (baseline failure aborts): when getPlaylistItems gives up on a
\* failed playlistItems.list, the run ends with a non-zero status; it does
\* not go on to the insert or delete loop with an empty list in place of
\* the entries it could not read.
C17_BaselineFailureAborts ==
    [][ ( /\ pc = "list"
          /\ variant # "clear"
          /\ ~clientRefresh
          /\ playlistId \in DOMAIN remote
          /\ faults' > faults
          /\ pc' # "list" ) =>
            (pc' = "exit" /\ exitCode' # 0) ]_vars

\* C18 (FetchExisting completeness): while updatePlaylistItems runs its
\* insert and delete loops after an unfailed read, the existing entries it
\* works from are all the entries the playlist had when it began, whatever
\* the playlist's size.
C18_FetchExistingComplete ==
    ( /\ pc \in {"insert", "delete"}
      /\ variant \in {"diff", "simple"}
      /\ ~clientRefresh
      /\ playlistId \in DOMAIN remote
      /\ faults = 0
      /\ externals = 0 ) =>
        existingItems = preItems

\* The waits the backoff rule prescribes, in ms: 1000, 2000, 4000, 8000 and
\* from the fifth on the cap of 10000.
ExpectedDelay(j) == IF j <= 4 THEN <<1000, 2000, 4000, 8000>>[j] ELSE 10000

\* C19 (retry bound and backoff): Utils.retry invokes the operation at most
\* maxAttempts times; every failed attempt that is followed by another was
\* followed by a wait of min(1000 * 2^(attempt-1), 10000) ms; when it
\* throws, it throws the error of the attempt that failed last.
C19_RetryBoundAndBackoff ==
    /\ Len(rLog) <= rMax
    /\ Len(rDelays) = IF rPc \in {"returned", "threw"} THEN Len(rLog) - 1
                                                       ELSE Len(rLog)
    /\ \A j \in 1..Len(rDelays) :
          rDelays[j] = ExpectedDelay(j) /\ rDelays[j] <= 10000
    /\ rPc = "threw" => (rThrown # 0 /\ rThrown = rLog[Len(rLog)])

\* The last of six attempts fails after five waits, the fifth at the cap.
C19_Witness ==
    /\ rPc = "threw"
    /\ Len(rLog) = rMax
    /\ Len(rDelays) >= 5
    /\ rDelays[5] = MAX_DELAY

\* The status codes of the failures the claim calls permanent: quota
\* exhausted (403) and not found (404).
PermanentCodes == {403, 404}

\* C20 (permanent failures are not retried): at every call site of
\* Utils.retry (all pass MAX_ATTEMPTS), a permanent failure of the operation
\* is its last invocation: the error is thrown at once, with no wait and
\* no further attempt.
C20_PermanentNotRetried ==
    rMax = MAX_ATTEMPTS =>
        \A j \in 1..Len(rLog) :
            rLog[j] \in PermanentCodes =>
                (j = Len(rLog) /\ rPc = "threw" /\ rThrown = rLog[j])

\* C21 (no blind retry of mutations): within one run in which a single
\* remote call reported a failure, no video is written to the playlist by
\* more than one insert, whatever that insert reported.
C21_NoBlindRetry ==
    faults <= 1 =>
        \A a, b \in MutationsOf("insert") :
            a # b => mutations[a].videoId # mutations[b].videoId

\* C22 (inter-call spacing): in a run on an existing playlist in which no
\* call fails, any two consecutive remote calls start at least
\* minApiCallInterval (1000 ms) apart.
C22_InterCallSpacing ==
    (lastGap # NoCall /\ ~clientRefresh /\ envPlaylistId \in DOMAIN remote
     /\ faults = 0) =>
        lastGap >= 1000

\* C23 (selector paging terminates): getLatestVideos asks for at most
\* maxTotalAttempts (5) search pages in a run; it asks for a page only
\* while it has fewer than MAX_RESULTS (20) candidates, and for a further
\* page only if the page before was not empty and named it as its next page.
C23_PagingTerminates ==
    /\ Len(pageLog) <= 5
    /\ \A k \in 1..Len(pageLog) :
          /\ pageLog[k].have < 20
          /\ k > 1 =>
                LET before == SearchList(BATCH_SIZE, pageLog[k - 1].token)
                IN  /\ before.items # <<>>
                    /\ before.nextPageToken # 0
                    /\ before.nextPageToken = pageLog[k].token
    /\ (fetched /\ ~selectorError /\ variant = "diff") =>
          LET last == SearchList(BATCH_SIZE, pageLog[Len(pageLog)].token)
          IN  \/ Len(videos) = 20
              \/ last.items = <<>>
              \/ last.nextPageToken = 0
              \/ Len(pageLog) = 5

\* On a channel of 300 videos none of which matches, the selector has asked
\* for five pages and returned.
C23_Witness ==
    /\ variant = "diff"
    /\ uploads = 300
    /\ fetched
    /\ ~selectorError
    /\ Len(pageLog) = 5
    /\ videos = <<>>

\* The videos among the search results of the pages asked for whose titles
\* match: all the matches the selector has scanned.
ScannedMatches ==
    LET size == IF variant = "simple" THEN MAX_RESULTS ELSE BATCH_SIZE
        Matches(k) == FilteredItems(SearchList(size, pageLog[k].token).items)
    IN  UNION { {Matches(k)[i].videoId : i \in 1..Len(Matches(k))} :
                k \in 1..Len(pageLog) }

\* C24 (sort then truncate): the candidate list handed to updatePlaylistItems
\* has at most 20 items, is in descending publishedAt order, and holds the
\* 20 most recent (or all, if fewer) of the matches scanned, whatever the
\* order of the search results.
C24_SortThenTruncate ==
    ( /\ pc = "list"
      /\ reconciled
      /\ ~selectorError
      /\ ~clientRefresh
      /\ variant \in {"rebuild", "simple"} ) =>
        LET ids == {videos[k].id : k \in 1..Len(videos)}
        IN  /\ Len(videos) <= 20
            /\ \A a, b \in 1..Len(videos) :
                  a < b => videos[a].publishedAt >= videos[b].publishedAt
            /\ Cardinality(ids) = Min(20, Cardinality(ScannedMatches))
            /\ \A v \in ScannedMatches \ ids :
                  \A w \in ids : PublishedAt(v) < PublishedAt(w)

\* C25 (playlist creation only when missing): a run whose configured
\* playlist exists creates no playlist, whether its existence check
\* succeeds or fails.
C25_CreateOnlyWhenMissing ==
    (envPlaylistId \in DOMAIN remote /\ ~clientRefresh) =>
        MutationsOf("create") = {}

\* C26 (successful run completes): a run of the diff draft as it stands,
\* with every variable set, on an existing playlist and with no remote call
\* failing, ends with exit status 0 after it has made remote calls, fetched
\* its candidates and, if there are any, invoked updatePlaylistItems.
C26_SuccessfulRunCompletes ==
    ( /\ pc = "exit"
      /\ variant = "diff"
      /\ ~clientRefresh
      /\ envPlaylistId \in DOMAIN remote
      /\ faults = 0
      /\ externals = 0 ) =>
        /\ exitCode = 0
        /\ sinceCall # NoCall
        /\ fetched
        /\ videos # <<>> => reconciled

\* C28 (minimum-duration filter): shouldIncludeVideo accepts a video if and
\* only if its title is one of those that match an inclusion pattern and
\* its parsed duration is at least 60 seconds; a video whose duration
\* parses as 0 is rejected.
C28_MinimumDuration ==
    fPc = "done" =>
        /\ fIncluded <=> (fTitle \in MatchingTitles /\ fSeconds >= 60)
        /\ fSeconds = 0 => ~fIncluded

\* A video with a matching title and the malformed duration P1DT1M has been
\* rejected.
C28_Witness ==
    /\ fPc = "done"
    /\ fTitle = <<"[","M","V","]"," ","a">>
    /\ fDuration = <<"P","1","D","T","1","M">>
    /\ fSeconds = 0
    /\ ~fIncluded

\* The string is PT, then an optional number and H, an optional number and
\* M, an optional number and S, and nothing else.
DurationForm(d) ==
    /\ Len(d) >= 2
    /\ d[1] = "P"
    /\ d[2] = "T"
    /\ LET h == DurationGroup(d, 3, "H")
           m == DurationGroup(d, h.next, "M")
           sec == DurationGroup(d, m.next, "S")
       IN  sec.next = Len(d) + 1

\* hours * 3600 + minutes * 60 + seconds of a string of that form.
TotalSeconds(d) ==
    LET h == DurationGroup(d, 3, "H")
        m == DurationGroup(d, h.next, "M")
        sec == DurationGroup(d, m.next, "S")
    IN  h.value * 3600 + m.value * 60 + sec.value

\* C29 (duration parsing): parseDuration returns hours * 3600 + minutes * 60
\* + seconds for a string of the form PT#H#M#S, and 0 for every other
\* string.
C29_DurationParsing ==
    fPc # "call" =>
        fSeconds = IF DurationForm(fDuration) THEN TotalSeconds(fDuration) ELSE 0

\* C27 (cache never outlives a mutation): whenever getPlaylistItems
\* answers from the playlistCache, the list it returns is the list the
\* service holds for the playlist (nobody but the manager changes it).
C27_CacheNeverStale ==
    [][ ( /\ pc = "list"
          /\ playlistId \in DOMAIN playlistCache
          /\ pc' # "list" ) =>
            existingItems' = PlaylistItemsList(playlistId, MAX_RESULTS) ]_vars

====
